---- MODULE Spec2Model ----
(***************************************************************************)
(* A model of the SQLite Browser application (fonker001/streamlit_test):   *)
(* the session state store (session_manager.py), the upload flow           *)
(* (modules/file_uploader.py), the query gateway (utils/database.py) and   *)
(* the request cycle that drives them (app.py).                            *)
(*                                                                         *)
(* Four specifications are given over the same variables:                  *)
(*   Spec             the application: request cycles of app.py main()     *)
(*   SpecHistory      add_to_query_history called directly                 *)
(*   SpecPreferences  update_preference called directly                    *)
(*   SpecGateway      execute_query called directly on an open handle      *)
(***************************************************************************)
EXTENDS Integers, Sequences, FiniteSets, TLC

VARIABLES
    session,        \* st.session_state: a mapping from field name to value
    uploaded_file,  \* value of the st.file_uploader widget (NoUpload or an upload)
    files,          \* temp files on disk, indexed by path id
    conns,          \* sqlite3 connections ever opened, indexed by handle id
    clock,          \* the wall clock (time.time()), in ticks
    pc,             \* position of the running script in app.py main()
    event,          \* whether the running script's interaction is still to be seen
    widgets,        \* the stored choices of the explorer's and the editor's selectbox
    lastCall        \* record of the most recent handler call (observation only)

vars == <<session, uploaded_file, files, conns, clock, pc, event, widgets, lastCall>>

-----------------------------------------------------------------------------
(* Bounds of the model *)

\* temp files that may be created in one behaviour
MaxPaths == 2
\* statements the user may run in one behaviour of Spec
MaxQueries == 1
\* calls of add_to_query_history in one behaviour of SpecHistory
MaxStoreCalls == 52
\* entries of the history of SpecHistory that record another query than qSelect
MaxOddEntries == 1
\* execute_query calls in one behaviour of SpecGateway
MaxGatewayCalls == 3

-----------------------------------------------------------------------------
(* Python values *)

\* Python's None where the field otherwise holds a handle id or a path id (>= 1)
None == 0
\* Python's None where the field otherwise holds a table name
NoTable == "None"
\* the file uploader holding no file
NoUpload == "no_upload"

Truthy(v) == v # None

-----------------------------------------------------------------------------
(* Session state store: session_manager.py *)

DefaultPreferences ==
    [rows_per_page |-> 100, theme |-> "light", auto_run_queries |-> FALSE]

SessionDefaults ==
    [db_path |-> None,
     connection |-> None,
     tables |-> <<>>,
     query_history |-> <<>>,
     selected_table |-> NoTable,
     active_tab |-> "explorer",
     preferences |-> DefaultPreferences]

\* the session before the first script run: no field is present
EmptySession == [k \in {} |-> None]

\* every field is set to its default, present or not
init_session_state_overwrites(ss) == SessionDefaults

\* each field is set to its default only when it is absent
init_session_state(ss) ==
    [k \in (DOMAIN ss) \cup (DOMAIN SessionDefaults) |->
        IF k \in DOMAIN ss THEN ss[k] ELSE SessionDefaults[k]]

\* query_history is cut to this many entries
HistoryCap == 50

\* time.strftime("%H:%M:%S"): the time of day of the clock reading
strftime(now) == now % 86400

\* add_to_query_history with a cap that is off by one (keeps 51 entries)
add_to_query_history_keeps_one_more(ss, now, query, success, rows_returned) ==
    LET history_entry == [query |-> query, timestamp |-> now, success |-> success,
                          rows_returned |-> rows_returned, time |-> strftime(now)]
        inserted == <<history_entry>> \o ss.query_history
    IN  [ss EXCEPT !.query_history =
            IF Len(inserted) > HistoryCap + 1
            THEN SubSeq(inserted, 1, HistoryCap + 1) ELSE inserted]

add_to_query_history(ss, now, query, success, rows_returned) ==
    LET history_entry == [query |-> query, timestamp |-> now, success |-> success,
                          rows_returned |-> rows_returned, time |-> strftime(now)]
        inserted == <<history_entry>> \o ss.query_history
    IN  [ss EXCEPT !.query_history =
            IF Len(inserted) > HistoryCap
            THEN SubSeq(inserted, 1, HistoryCap) ELSE inserted]

\* update_preference that stores any key (no membership test)
update_preference_any_key(ss, key, value) ==
    [session |-> [ss EXCEPT !.preferences =
                    [k \in (DOMAIN ss.preferences) \cup {key} |->
                        IF k = key THEN value ELSE ss.preferences[k]]],
     ret |-> TRUE]

\* returns the new session and the function's return value
update_preference(ss, key, value) ==
    IF key \in DOMAIN ss.preferences
    THEN [session |-> [ss EXCEPT !.preferences[key] = value], ret |-> TRUE]
    ELSE [session |-> ss, ret |-> FALSE]

-----------------------------------------------------------------------------
(* The database files and the backend (sqlite3) *)

\* the table names of the model in ascending order (ORDER BY name)
TableNames == <<"orders", "products", "sqlite_sequence", "t1", "t2", "users">>

\* name LIKE 'sqlite_%' within TableNames
LikeSqlite(name) == name = "sqlite_sequence"

\* a table: per column its name, declared type and primary-key position
\* (PRAGMA table_info), and the rows; every cell value is written as a string
Table(columns, types, pk, rows) ==
    [columns |-> columns, types |-> types, pk |-> pk, rows |-> rows]

\* a database: whether the bytes are a database at all, and its tables
NotADatabase ==
    [valid |-> FALSE, tables |-> [n \in {} |-> Table(<<>>, <<>>, <<>>, <<>>)]]

Database(tables) == [valid |-> TRUE, tables |-> tables]

\* the table sqlite keeps for AUTOINCREMENT columns
SqliteSequence(rows) == Table(<<"name", "seq">>, <<"", "">>, <<0, 0>>, rows)

\* the files the user can choose in the uploader, and their bytes
Uploads == {"a.db", "b.db", "bad.db"}

UploadBytes(f) ==
    CASE f = "a.db" ->
            Database(("t1" :> Table(<<"x">>, <<"INTEGER">>, <<0>>, << <<"1">> >>))
                  @@ ("sqlite_sequence" :> SqliteSequence(<< <<"t1", "1">> >>)))
      [] f = "b.db" ->
            Database(("t1" :> Table(<<"x">>, <<"INTEGER">>, <<0>>, <<>>))
                  @@ ("t2" :> Table(<<"x">>, <<"TEXT">>, <<0>>, << <<"7">> >>)))
      [] OTHER -> NotADatabase

\* the database written by create_sample_database
SampleBytes ==
    Database(
        ("users" :> Table(<<"id", "username", "email", "created_at">>,
                          <<"INTEGER", "TEXT", "TEXT", "TIMESTAMP">>,
                          <<1, 0, 0, 0>>,
                          << <<"1", "alice", "alice@example.com", "now">>,
                             <<"2", "bob", "bob@example.com", "now">> >>))
     @@ ("products" :> Table(<<"id", "name", "price", "category", "in_stock">>,
                          <<"INTEGER", "TEXT", "REAL", "TEXT", "INTEGER">>,
                          <<1, 0, 0, 0, 0>>,
                          << <<"1", "Laptop", "999.99", "Electronics", "10">>,
                             <<"2", "Book", "19.99", "Education", "50">> >>))
     @@ ("orders" :> Table(<<"id", "user_id", "product_id", "quantity", "order_date">>,
                          <<"INTEGER", "INTEGER", "INTEGER", "INTEGER", "DATE">>,
                          <<1, 0, 0, 0, 0>>,
                          << <<"1", "1", "1", "1", "2024-01-15">>,
                             <<"2", "2", "2", "3", "2024-01-16">> >>))
     @@ ("sqlite_sequence" :> SqliteSequence(<< <<"users", "2">>, <<"orders", "2">> >>)))

\* the names of S in ascending order
SortedNames(S) == SelectSeq(TableNames, LAMBDA n : n \in S)

Range(seq) == {seq[i] : i \in DOMAIN seq}

\* the query fails on bytes that are no database; the failure is swallowed
get_table_list(db) ==
    IF db.valid
    THEN SortedNames({n \in DOMAIN db.tables : ~LikeSqlite(n)})
    ELSE <<>>

\* what the environment lets happen during one connect_to_database call
ConnectOutcomes == {"ok", "connect_raises", "pragma_raises"}

\* sqlite3.connect, then PRAGMA foreign_keys = ON; any failure is re-raised.
\* A failure of the PRAGMA leaves the opened handle behind, unreferenced.
connect_to_database(cn, db_path, outcome) ==
    LET opened == Append(cn, [path |-> db_path, open |-> TRUE,
                              close_failed |-> FALSE, returned |-> outcome = "ok",
                              in_transaction |-> FALSE, uncommitted |-> NotADatabase])
    IN  CASE outcome = "ok" ->
                [conns |-> opened, raised |-> FALSE, conn |-> Len(opened)]
          [] outcome = "pragma_raises" ->
                [conns |-> opened, raised |-> TRUE, conn |-> None]
          [] OTHER ->
                [conns |-> cn, raised |-> TRUE, conn |-> None]

\* connection.close(): an open transaction is rolled back; when close() raises
\* the handle is left as it was
Close(cn, conn, close_raises) ==
    IF close_raises
    THEN [cn EXCEPT ![conn].close_failed = TRUE]
    ELSE [cn EXCEPT ![conn].open = FALSE, ![conn].in_transaction = FALSE,
                    ![conn].uncommitted = NotADatabase]

\* clear_database_state that drops the handle without closing it
clear_database_state_no_close(ss, cn, close_raises) ==
    [session |-> [ss EXCEPT !.db_path = None, !.connection = None,
                            !.tables = <<>>, !.selected_table = NoTable],
     conns |-> cn]

\* clear_database_state that forgets to reset db_path
clear_database_state_keeps_path(ss, cn, close_raises) ==
    [session |-> [ss EXCEPT !.connection = None,
                            !.tables = <<>>, !.selected_table = NoTable],
     conns |-> IF Truthy(ss.connection)
               THEN Close(cn, ss.connection, close_raises) ELSE cn]

\* clear_database_state that forgets to reset selected_table
clear_database_state_keeps_selection(ss, cn, close_raises) ==
    [session |-> [ss EXCEPT !.db_path = None, !.connection = None, !.tables = <<>>],
     conns |-> IF Truthy(ss.connection)
               THEN Close(cn, ss.connection, close_raises) ELSE cn]

\* clear_database_state that also empties the query history
clear_database_state_drops_history(ss, cn, close_raises) ==
    [session |-> [ss EXCEPT !.db_path = None, !.connection = None, !.tables = <<>>,
                            !.selected_table = NoTable, !.query_history = <<>>],
     conns |-> IF Truthy(ss.connection)
               THEN Close(cn, ss.connection, close_raises) ELSE cn]

\* closes the handle if there is one (a failure of close() is swallowed and
\* leaves the handle as it was), then resets the four database fields
clear_database_state(ss, cn, close_raises) ==
    [session |-> [ss EXCEPT !.db_path = None, !.connection = None,
                            !.tables = <<>>, !.selected_table = NoTable],
     conns |-> IF Truthy(ss.connection)
               THEN Close(cn, ss.connection, close_raises) ELSE cn]

-----------------------------------------------------------------------------
(* Upload flow: modules/file_uploader.py *)

\* what the environment lets happen while the bytes are written to a temp file
PersistOutcomes == {"ok", "create_fails", "write_fails"}

\* the name of an existing temp file is given out again
NamedTemporaryFile_reuses(fs) == IF fs = <<>> THEN 1 ELSE Len(fs)

\* tempfile.NamedTemporaryFile(delete=False): a file is created under a name no
\* existing file has, and no temp file is ever deleted; paths are numbered in
\* the order of their creation
NamedTemporaryFile(fs) == Len(fs) + 1

\* w is the world [session, files, conns]; bytes is what getvalue() returns and
\* origin names where they came from; env is what the environment lets happen:
\* [persist, close_raises, connect].  Returns the new world and the return value.
handle_uploaded_file(w, origin, bytes, env) ==
    LET tmp_path == NamedTemporaryFile(w.files)
        written == [p \in DOMAIN w.files \cup {tmp_path} |->
                      IF p = tmp_path
                      THEN [origin |-> origin, uploaded |-> bytes,
                            db |-> IF env.persist = "ok" THEN bytes
                                   ELSE NotADatabase]
                      ELSE w.files[p]]
    IN  IF env.persist = "create_fails"
        THEN [session |-> w.session, files |-> w.files, conns |-> w.conns,
              ret |-> FALSE, raised |-> TRUE]
        ELSE IF env.persist = "write_fails"
        THEN [session |-> w.session, files |-> written, conns |-> w.conns,
              ret |-> FALSE, raised |-> TRUE]
        ELSE IF w.session.db_path # tmp_path
        THEN LET cleared == clear_database_state(w.session, w.conns, env.close_raises)
                 c == connect_to_database(cleared.conns, tmp_path, env.connect)
             IN  IF c.raised
                 THEN [session |-> cleared.session, files |-> written,
                       conns |-> c.conns, ret |-> FALSE, raised |-> TRUE]
                 ELSE [session |-> [cleared.session EXCEPT
                                      !.connection = c.conn,
                                      !.db_path = tmp_path,
                                      !.tables = get_table_list(written[tmp_path].db)],
                       files |-> written, conns |-> c.conns,
                       ret |-> TRUE, raised |-> FALSE]
        ELSE [session |-> w.session, files |-> written, conns |-> w.conns,
              ret |-> FALSE, raised |-> FALSE]

World == [session |-> session, files |-> files, conns |-> conns]

-----------------------------------------------------------------------------
(* Text: Python str operations on sequences of characters *)

LowerLetters ==
    <<"a", "b", "c", "d", "e", "f", "g", "h", "i", "j", "k", "l", "m",
      "n", "o", "p", "q", "r", "s", "t", "u", "v", "w", "x", "y", "z">>

UpperLetters ==
    <<"A", "B", "C", "D", "E", "F", "G", "H", "I", "J", "K", "L", "M",
      "N", "O", "P", "Q", "R", "S", "T", "U", "V", "W", "X", "Y", "Z">>

DigitChars == <<"0", "1", "2", "3", "4", "5", "6", "7", "8", "9">>

\* the characters str.strip() removes
Whitespace == {" ", "\n", "\t"}

IndexOf(seq, c) == CHOOSE i \in DOMAIN seq : seq[i] = c

upper_char(c) ==
    IF c \in Range(LowerLetters) THEN UpperLetters[IndexOf(LowerLetters, c)] ELSE c

\* str.upper()
upper(s) == [i \in 1..Len(s) |-> upper_char(s[i])]

RECURSIVE lstrip(_)
lstrip(s) == IF s # <<>> /\ Head(s) \in Whitespace THEN lstrip(Tail(s)) ELSE s

RECURSIVE rstrip(_)
rstrip(s) ==
    IF s # <<>> /\ s[Len(s)] \in Whitespace THEN rstrip(SubSeq(s, 1, Len(s) - 1)) ELSE s

\* str.strip()
strip(s) == rstrip(lstrip(s))

\* str.startswith(prefix)
startswith(s, prefix) ==
    Len(s) >= Len(prefix) /\ SubSeq(s, 1, Len(prefix)) = prefix

\* the string made of the characters of s
RECURSIVE Join(_)
Join(s) == IF s = <<>> THEN "" ELSE Head(s) \o Join(Tail(s))

\* str(n) for a natural number n
RECURSIVE str_int(_)
str_int(n) ==
    IF n < 10 THEN <<DigitChars[n + 1]>>
    ELSE str_int(n \div 10) \o <<DigitChars[(n % 10) + 1]>>

\* a numeric literal: digits with an optional fraction
IsNumber(s) ==
    /\ s # <<>> /\ s[1] \in Range(DigitChars)
    /\ \A i \in DOMAIN s : s[i] \in Range(DigitChars) \cup {"."}
    /\ Cardinality({i \in DOMAIN s : s[i] = "."}) <= 1

RECURSIVE int_of(_)
int_of(s) ==
    IF s = <<>> THEN 0
    ELSE 10 * int_of(SubSeq(s, 1, Len(s) - 1)) + (IndexOf(DigitChars, s[Len(s)]) - 1)

\* the characters of the names used in the model
Chars(name) ==
    CASE name = "" -> <<>>
      [] name = "INTEGER" -> <<"I", "N", "T", "E", "G", "E", "R">>
      [] name = "TEXT" -> <<"T", "E", "X", "T">>
      [] name = "REAL" -> <<"R", "E", "A", "L">>
      [] name = "TIMESTAMP" -> <<"T", "I", "M", "E", "S", "T", "A", "M", "P">>
      [] name = "DATE" -> <<"D", "A", "T", "E">>
      [] name = "orders" -> <<"o", "r", "d", "e", "r", "s">>
      [] name = "products" -> <<"p", "r", "o", "d", "u", "c", "t", "s">>
      [] name = "sqlite_sequence" -> <<"s", "q", "l", "i", "t", "e", "_", "s", "e",
                              "q", "u", "e", "n", "c", "e">>
      [] name = "t1" -> <<"t", "1">>
      [] name = "t2" -> <<"t", "2">>
      [] name = "users" -> <<"u", "s", "e", "r", "s">>
      [] name = "x" -> <<"x">>
      [] name = "name" -> <<"n", "a", "m", "e">>
      [] name = "seq" -> <<"s", "e", "q">>
      [] name = "id" -> <<"i", "d">>
      [] name = "username" -> <<"u", "s", "e", "r", "n", "a", "m", "e">>
      [] name = "email" -> <<"e", "m", "a", "i", "l">>
      [] name = "created_at" -> <<"c", "r", "e", "a", "t", "e", "d", "_", "a",
                              "t">>
      [] name = "price" -> <<"p", "r", "i", "c", "e">>
      [] name = "category" -> <<"c", "a", "t", "e", "g", "o", "r", "y">>
      [] name = "in_stock" -> <<"i", "n", "_", "s", "t", "o", "c", "k">>
      [] name = "user_id" -> <<"u", "s", "e", "r", "_", "i", "d">>
      [] name = "product_id" -> <<"p", "r", "o", "d", "u", "c", "t", "_", "i",
                              "d">>
      [] name = "quantity" -> <<"q", "u", "a", "n", "t", "i", "t", "y">>
      [] name = "order_date" -> <<"o", "r", "d", "e", "r", "_", "d", "a", "t",
                              "e">>

\* keywords of the backend's SQL, in upper case
KwSelect == <<"S", "E", "L", "E", "C", "T">>
KwFrom == <<"F", "R", "O", "M">>
KwLimit == <<"L", "I", "M", "I", "T">>
KwInsert == <<"I", "N", "S", "E", "R", "T">>
KwInto == <<"I", "N", "T", "O">>
KwValues == <<"V", "A", "L", "U", "E", "S">>
KwDelete == <<"D", "E", "L", "E", "T", "E">>
KwCreate == <<"C", "R", "E", "A", "T", "E">>
KwTable == <<"T", "A", "B", "L", "E">>
KwDrop == <<"D", "R", "O", "P">>

\* the query texts of the model
\* 'SELECT * FROM t1'
qSelect ==
    <<"S", "E", "L", "E", "C", "T", " ", "*", " ", "F", "R", "O", "M", " ",
    "t", "1">>
\* '  select * from t2\n'
qSelectPadded ==
    <<" ", " ", "s", "e", "l", "e", "c", "t", " ", "*", " ", "f", "r", "o",
    "m", " ", "t", "2", "\n">>
\* 'Select * From t9'
qSelectMissing ==
    <<"S", "e", "l", "e", "c", "t", " ", "*", " ", "F", "r", "o", "m", " ",
    "t", "9">>
\* 'SELECTX * FROM t1'
qSelectx ==
    <<"S", "E", "L", "E", "C", "T", "X", " ", "*", " ", "F", "R", "O", "M",
    " ", "t", "1">>
\* '--c\nSELECT * FROM t1'
qCommentSelect ==
    <<"-", "-", "c", "\n", "S", "E", "L", "E", "C", "T", " ", "*", " ", "F",
    "R", "O", "M", " ", "t", "1">>
\* 'INSERT INTO t1 VALUES (2)'
qInsert ==
    <<"I", "N", "S", "E", "R", "T", " ", "I", "N", "T", "O", " ", "t", "1",
    " ", "V", "A", "L", "U", "E", "S", " ", "(", "2", ")">>
\* "\tinsert into t2 (x) values ('a') "
qInsertPadded ==
    <<"\t", "i", "n", "s", "e", "r", "t", " ", "i", "n", "t", "o", " ", "t",
    "2", " ", "(", "x", ")", " ", "v", "a", "l", "u", "e", "s", " ", "(",
    "'", "a", "'", ")", " ">>
\* 'DELETE FROM t1'
qDelete ==
    <<"D", "E", "L", "E", "T", "E", " ", "F", "R", "O", "M", " ", "t", "1">>
\* 'CREATE TABLE t2 (x)'
qCreate ==
    <<"C", "R", "E", "A", "T", "E", " ", "T", "A", "B", "L", "E", " ", "t",
    "2", " ", "(", "x", ")">>
\* 'drop table t1'
qDrop ==
    <<"d", "r", "o", "p", " ", "t", "a", "b", "l", "e", " ", "t", "1">>
\* 'VALUES (1)'
qValues ==
    <<"V", "A", "L", "U", "E", "S", " ", "(", "1", ")">>
\* 'SELEC'
qSelec ==
    <<"S", "E", "L", "E", "C">>
\* '  \n'
qBlank ==
    <<" ", " ", "\n">>

QueryTexts ==
    {qSelect,
     qSelectPadded,
     qSelectMissing,
     qSelectx,
     qCommentSelect,
     qInsert,
     qInsertPadded,
     qDelete,
     qCreate,
     qDrop,
     qValues,
     qSelec,
     qBlank}

-----------------------------------------------------------------------------
(* The backend's reading of a statement text (sqlite3's parser) *)

Punctuation == {"(", ")", ",", "*", ";"}

Word(t) == [k |-> "word", t |-> t]
Punct(c) == [k |-> "punct", t |-> <<c>>]
Literal(t) == [k |-> "literal", t |-> t]
Unterminated == [k |-> "unterminated", t |-> <<>>]

\* first index j >= i with s[j] = c, or 0
FirstAt(s, i, c) ==
    IF \E j \in i..Len(s) : s[j] = c
    THEN CHOOSE j \in i..Len(s) : s[j] = c /\ \A m \in i..(j - 1) : s[m] # c
    ELSE 0

\* a word ends at whitespace, punctuation, a quote or the start of a comment
EndsWord(s, j) ==
    \/ s[j] \in Whitespace \cup Punctuation \cup {"'"}
    \/ s[j] = "-" /\ j < Len(s) /\ s[j + 1] = "-"

\* first index j >= i of s that is no whitespace, or Len(s) + 1
SkipWhitespace(s, i) ==
    IF \E j \in i..Len(s) : s[j] \notin Whitespace
    THEN CHOOSE j \in i..Len(s) :
            s[j] \notin Whitespace /\ \A m \in i..(j - 1) : s[m] \in Whitespace
    ELSE Len(s) + 1

\* first index j >= i of s that ends a word, or Len(s) + 1
WordEnd(s, i) ==
    IF \E j \in i..Len(s) : EndsWord(s, j)
    THEN CHOOSE j \in i..Len(s) :
            EndsWord(s, j) /\ \A m \in i..(j - 1) : ~EndsWord(s, m)
    ELSE Len(s) + 1

\* The tokens of s from index i on: words are put in upper case (keywords and
\* names are case-insensitive), '...' is a string literal, -- starts a comment
\* that runs to the end of the line, whitespace separates.
RECURSIVE Lex(_, _, _)
Lex(s, i, acc) ==
    LET b == SkipWhitespace(s, i)
        eol == FirstAt(s, b, "\n")
        quote == FirstAt(s, b + 1, "'")
        e == WordEnd(s, b)
    IN  IF b > Len(s) THEN acc
        ELSE IF s[b] = "-" /\ b < Len(s) /\ s[b + 1] = "-"
        THEN IF eol = 0 THEN acc ELSE Lex(s, eol + 1, acc)
        ELSE IF s[b] \in Punctuation
        THEN Lex(s, b + 1, Append(acc, Punct(s[b])))
        ELSE IF s[b] = "'"
        THEN IF quote = 0 THEN Append(acc, Unterminated)
             ELSE Lex(s, quote + 1, Append(acc, Literal(SubSeq(s, b + 1, quote - 1))))
        ELSE Lex(s, e, Append(acc, Word(upper(SubSeq(s, b, e - 1)))))

Tokens(s) == Lex(s, 1, <<>>)

IsValueToken(tok) == tok.k = "literal" \/ (tok.k = "word" /\ IsNumber(tok.t))
IsNameToken(tok) == tok.k = "word" /\ ~IsNumber(tok.t)

\* the items of a parenthesised, comma-separated list that opens at index i of
\* toks and closes at index j
ListItems(toks, i, j) ==
    SelectSeq(SubSeq(toks, i + 1, j - 1), LAMBDA tok : tok # Punct(","))

IsList(toks, i, j) ==
    /\ 1 <= i /\ i + 1 < j /\ j <= Len(toks)
    /\ toks[i] = Punct("(") /\ toks[j] = Punct(")")
    /\ (j - i) % 2 = 0
    /\ \A m \in (i + 1)..(j - 1) :
          IF (m - i) % 2 = 1 THEN toks[m].k \in {"word", "literal"}
          ELSE toks[m] = Punct(",")

\* a list of names, a list of values
IsNameList(toks, i, j) ==
    IsList(toks, i, j) /\ \A m \in (i + 1)..(j - 1) :
                              toks[m] = Punct(",") \/ IsNameToken(toks[m])

IsValueList(toks, i, j) ==
    IsList(toks, i, j) /\ \A m \in (i + 1)..(j - 1) :
                              toks[m] = Punct(",") \/ IsValueToken(toks[m])

SyntaxError == [kind |-> "syntax_error"]

\* the statement a token sequence stands for
Parse(toks) ==
    LET n == Len(toks)
        close == IF n >= 4 THEN FirstAt(toks, 4, Punct(")")) ELSE 0
    IN  CASE n = 0 -> [kind |-> "empty"]
          [] n = 4 /\ toks[1] = Word(KwSelect) /\ toks[2] = Punct("*")
                   /\ toks[3] = Word(KwFrom) /\ IsNameToken(toks[4]) ->
                [kind |-> "select", table |-> toks[4].t, limit |-> -1]
          [] n = 6 /\ toks[1] = Word(KwSelect) /\ toks[2] = Punct("*")
                   /\ toks[3] = Word(KwFrom) /\ IsNameToken(toks[4])
                   /\ toks[5] = Word(KwLimit) /\ IsValueToken(toks[6])
                   /\ toks[6].k = "word" ->
                [kind |-> "select", table |-> toks[4].t, limit |-> int_of(toks[6].t)]
          [] n = 3 /\ toks[1] = Word(KwDelete) /\ toks[2] = Word(KwFrom)
                   /\ IsNameToken(toks[3]) ->
                [kind |-> "delete", table |-> toks[3].t]
          [] n = 3 /\ toks[1] = Word(KwDrop) /\ toks[2] = Word(KwTable)
                   /\ IsNameToken(toks[3]) ->
                [kind |-> "drop", table |-> toks[3].t]
          [] n >= 6 /\ toks[1] = Word(KwCreate) /\ toks[2] = Word(KwTable)
                   /\ IsNameToken(toks[3]) /\ IsNameList(toks, 4, n) ->
                [kind |-> "create", table |-> toks[3].t,
                 columns |-> ListItems(toks, 4, n)]
          [] n >= 4 /\ toks[1] = Word(KwValues) /\ IsValueList(toks, 2, n) ->
                [kind |-> "values", values |-> ListItems(toks, 2, n)]
          [] n >= 7 /\ toks[1] = Word(KwInsert) /\ toks[2] = Word(KwInto)
                   /\ IsNameToken(toks[3]) /\ toks[4] = Word(KwValues)
                   /\ IsValueList(toks, 5, n) ->
                [kind |-> "insert", table |-> toks[3].t, columns |-> <<>>,
                 values |-> ListItems(toks, 5, n)]
          [] n >= 10 /\ toks[1] = Word(KwInsert) /\ toks[2] = Word(KwInto)
                   /\ IsNameToken(toks[3]) /\ close > 0 /\ IsNameList(toks, 4, close)
                   /\ close + 1 < n /\ toks[close + 1] = Word(KwValues)
                   /\ IsValueList(toks, close + 2, n) ->
                [kind |-> "insert", table |-> toks[3].t,
                 columns |-> ListItems(toks, 4, close),
                 values |-> ListItems(toks, close + 2, n)]
          [] OTHER -> SyntaxError

-----------------------------------------------------------------------------
(* The backend's execution of a statement (sqlite3 with foreign keys ON) *)

ColumnNames ==
    {"x", "name", "seq", "id", "username", "email", "created_at", "price",
     "category", "in_stock", "user_id", "product_id", "quantity", "order_date"}

\* the constraints the DDL of create_sample_database declares; the other
\* tables of the model declare none
UniqueColumns(table) ==
    CASE table = "users" -> {"id", "email"}
      [] table = "products" -> {"id"}
      [] table = "orders" -> {"id"}
      [] OTHER -> {}

\* <<column, parent table, parent column>>
ForeignKeys(table) ==
    IF table = "orders"
    THEN {<<"user_id", "users", "id">>, <<"product_id", "products", "id">>}
    ELSE {}

DefaultValue(table, column) ==
    CASE table = "users" /\ column = "created_at" -> "now"
      [] table = "products" /\ column = "in_stock" -> "0"
      [] OTHER -> "NULL"

\* the name a (case-insensitive) name token stands for among the names of S
Resolves(S, tok) == \E n \in S : upper(Chars(n)) = tok
Resolve(S, tok) == CHOOSE n \in S : upper(Chars(n)) = tok

ColumnIndex(table, column) == IndexOf(table.columns, column)

Failure(db, message) ==
    [ok |-> FALSE, db |-> db, rowcount |-> -1, columns |-> <<>>, rows |-> <<>>,
     error |-> message]

Success(db, rowcount, columns, rows) ==
    [ok |-> TRUE, db |-> db, rowcount |-> rowcount, columns |-> columns,
     rows |-> rows, error |-> ""]

Min(a, b) == IF a < b THEN a ELSE b

\* the row an INSERT statement builds for table t named n
InsertedRow(n, t, stmt) ==
    LET listed == IF stmt.columns = <<>> THEN t.columns
                  ELSE [i \in DOMAIN stmt.columns |->
                            Resolve(Range(t.columns), stmt.columns[i].t)]
    IN  [i \in DOMAIN t.columns |->
            IF t.columns[i] \in Range(listed)
            THEN Join(stmt.values[IndexOf(listed, t.columns[i])].t)
            ELSE DefaultValue(n, t.columns[i])]

ViolatesUnique(n, t, row) ==
    \E c \in UniqueColumns(n) \cap Range(t.columns) :
        /\ row[ColumnIndex(t, c)] # "NULL"
        /\ \E r \in Range(t.rows) : r[ColumnIndex(t, c)] = row[ColumnIndex(t, c)]

ViolatesForeignKey(db, n, t, row) ==
    \E fk \in ForeignKeys(n) :
        /\ fk[1] \in Range(t.columns)
        /\ row[ColumnIndex(t, fk[1])] # "NULL"
        /\ \/ fk[2] \notin DOMAIN db.tables
           \/ ~\E r \in Range(db.tables[fk[2]].rows) :
                  r[ColumnIndex(db.tables[fk[2]], fk[3])] = row[ColumnIndex(t, fk[1])]

\* some row of another table refers to a row of table n
IsReferenced(db, n) ==
    \E child \in DOMAIN db.tables : \E fk \in ForeignKeys(child) :
        /\ fk[2] = n /\ db.tables[n].rows # <<>>
        /\ fk[1] \in Range(db.tables[child].columns)
        /\ \E r \in Range(db.tables[child].rows) :
              r[ColumnIndex(db.tables[child], fk[1])] # "NULL"

Without(f, n) == [m \in (DOMAIN f) \ {n} |-> f[m]]

\* db is the database the connection sees; the result holds the database after
\* the statement, cursor.rowcount and the rows the statement returns
Execute(db, stmt) ==
    CASE stmt.kind = "syntax_error" -> Failure(db, "syntax error")
      [] ~db.valid -> Failure(db, "file is not a database")
      [] stmt.kind = "empty" -> Success(db, -1, <<>>, <<>>)
      [] stmt.kind = "values" ->
            Success(db, -1,
                    [i \in DOMAIN stmt.values |-> "column" \o Join(str_int(i))],
                    << [i \in DOMAIN stmt.values |-> Join(stmt.values[i].t)] >>)
      [] stmt.kind = "create" ->
            IF Resolves(DOMAIN db.tables, stmt.table)
               \/ ~Resolves(Range(TableNames), stmt.table)
               \/ \E i \in DOMAIN stmt.columns : ~Resolves(ColumnNames, stmt.columns[i].t)
            THEN Failure(db, "table already exists")
            ELSE Success(
                    [db EXCEPT !.tables = @ @@
                        (Resolve(Range(TableNames), stmt.table) :>
                            Table([i \in DOMAIN stmt.columns |->
                                      Resolve(ColumnNames, stmt.columns[i].t)],
                                  [i \in DOMAIN stmt.columns |-> ""],
                                  [i \in DOMAIN stmt.columns |-> 0], <<>>))],
                    -1, <<>>, <<>>)
      [] OTHER ->
            IF ~Resolves(DOMAIN db.tables, stmt.table)
            THEN Failure(db, "no such table")
            ELSE LET n == Resolve(DOMAIN db.tables, stmt.table)
                     t == db.tables[n]
                 IN  CASE stmt.kind = "select" ->
                            Success(db, -1, t.columns,
                                    IF stmt.limit < 0 THEN t.rows
                                    ELSE SubSeq(t.rows, 1, Min(stmt.limit, Len(t.rows))))
                       [] stmt.kind = "delete" ->
                            IF IsReferenced(db, n)
                            THEN Failure(db, "FOREIGN KEY constraint failed")
                            ELSE Success([db EXCEPT !.tables[n].rows = <<>>],
                                         Len(t.rows), <<>>, <<>>)
                       [] stmt.kind = "drop" ->
                            IF IsReferenced(db, n)
                            THEN Failure(db, "FOREIGN KEY constraint failed")
                            ELSE Success([db EXCEPT !.tables = Without(@, n)],
                                         -1, <<>>, <<>>)
                       [] OTHER ->
                            IF \/ \E i \in DOMAIN stmt.columns :
                                     ~Resolves(Range(t.columns), stmt.columns[i].t)
                               \/ Len(stmt.values) #
                                     (IF stmt.columns = <<>> THEN Len(t.columns)
                                      ELSE Len(stmt.columns))
                            THEN Failure(db, "columns and values do not match")
                            ELSE LET row == InsertedRow(n, t, stmt)
                                 IN  IF ViolatesUnique(n, t, row)
                                     THEN Failure(db, "UNIQUE constraint failed")
                                     ELSE IF ViolatesForeignKey(db, n, t, row)
                                     THEN Failure(db, "FOREIGN KEY constraint failed")
                                     ELSE Success(
                                            [db EXCEPT !.tables[n].rows = Append(@, row)],
                                            1, <<>>, <<>>)

\* the database a connection sees: its open transaction's, else the file's
View(cn, fs, conn) ==
    IF cn[conn].in_transaction THEN cn[conn].uncommitted ELSE fs[cn[conn].path].db

\* what a statement's result e does to the connection and the file: a
\* statement that changes rows (INSERT, DELETE) opens a transaction that holds
\* the change until commit; CREATE and DROP change the file at once
Settle(cn, fs, conn, stmt, e) ==
    IF ~e.ok THEN [conns |-> cn, files |-> fs, result |-> e]
    ELSE IF stmt.kind \in {"insert", "delete"} \/ cn[conn].in_transaction
    THEN [conns |-> [cn EXCEPT ![conn].in_transaction = TRUE,
                               ![conn].uncommitted = e.db],
          files |-> fs, result |-> e]
    ELSE [conns |-> cn,
          files |-> [fs EXCEPT ![cn[conn].path].db = e.db],
          result |-> e]

RunStatement(cn, fs, conn, stmt) ==
    Settle(cn, fs, conn, stmt,
           IF cn[conn].open THEN Execute(View(cn, fs, conn), stmt)
           ELSE Failure(View(cn, fs, conn), "Cannot operate on a closed database."))

\* cursor.execute / pandas.read_sql_query on a connection.
\* Returns the connections, the files and the backend's result.
Run(cn, fs, conn, text) == RunStatement(cn, fs, conn, Parse(Tokens(text)))

\* conn.commit()
Commit(cn, fs, conn) ==
    IF cn[conn].in_transaction
    THEN [conns |-> [cn EXCEPT ![conn].in_transaction = FALSE,
                               ![conn].uncommitted = NotADatabase],
          files |-> [fs EXCEPT ![cn[conn].path].db = cn[conn].uncommitted]]
    ELSE [conns |-> cn, files |-> fs]

-----------------------------------------------------------------------------
(* Query gateway: utils/database.py *)

\* a pandas DataFrame: named columns and ordered rows
Frame(columns, rows) == [columns |-> columns, rows |-> rows]

NoFrame == Frame(<<>>, <<>>)

StatusFrame(message) == Frame(<<"message">>, << <<message>> >>)

RowsAffected(n) ==
    "Query executed successfully. Rows affected: " \o Join(str_int(n))

GenericSuccess == "Query executed successfully."

\* len(df), df.empty
len(df) == Len(df.rows)
empty(df) == df.rows = <<>> \/ df.columns = <<>>

\* the outcome of a gateway call: the connections and files after it, whether
\* it raised, the frame it returned, the branch it took and whether it called
\* conn.commit()
Outcome(cn, fs, raised, frame, path, committed) ==
    [conns |-> cn, files |-> fs, raised |-> raised, frame |-> frame,
     path |-> path, committed |-> committed]

\* pd.read_sql_query(query, conn): r is what the backend did with the text
ReadPath(r) ==
    IF r.result.ok
    THEN Outcome(r.conns, r.files, FALSE,
                 Frame(r.result.columns, r.result.rows), "read", FALSE)
    ELSE Outcome(r.conns, r.files, TRUE, NoFrame, "read", FALSE)

\* the write path without its conn.commit()
WritePathNoCommit(conn, r) ==
    IF ~r.result.ok
    THEN Outcome(r.conns, r.files, TRUE, NoFrame, "write", FALSE)
    ELSE Outcome(r.conns, r.files, FALSE,
                 StatusFrame(IF r.result.rowcount >= 0
                             THEN RowsAffected(r.result.rowcount)
                             ELSE GenericSuccess), "write", FALSE)

\* cursor.execute(query), conn.commit(), and the status frame chosen by
\* cursor.rowcount
WritePath(conn, r) ==
    IF ~r.result.ok
    THEN Outcome(r.conns, r.files, TRUE, NoFrame, "write", FALSE)
    ELSE Outcome(Commit(r.conns, r.files, conn).conns,
                 Commit(r.conns, r.files, conn).files, FALSE,
                 StatusFrame(IF r.result.rowcount >= 0
                             THEN RowsAffected(r.result.rowcount)
                             ELSE GenericSuccess), "write", TRUE)

\* execute_query that does not call conn.commit()
execute_query_no_commit(cn, fs, conn, query) ==
    IF startswith(upper(strip(query)), KwSelect)
    THEN ReadPath(Run(cn, fs, conn, query))
    ELSE WritePathNoCommit(conn, Run(cn, fs, conn, query))

\* A text that starts with SELECT once stripped and put in upper case goes to
\* pandas.read_sql_query; any other text is executed on a cursor and committed.
\* Every failure is re-raised.
execute_query(cn, fs, conn, query) ==
    IF startswith(upper(strip(query)), KwSelect)
    THEN ReadPath(Run(cn, fs, conn, query))
    ELSE WritePath(conn, Run(cn, fs, conn, query))

\* f"SELECT * FROM {table_name} LIMIT {limit}"
PreviewQuery(table_name, limit) ==
    KwSelect \o <<" ", "*", " ">> \o KwFrom \o <<" ">> \o Chars(table_name)
        \o <<" ">> \o KwLimit \o <<" ">> \o str_int(limit)

get_table_preview(cn, fs, conn, table_name, limit) ==
    ReadPath(Run(cn, fs, conn, PreviewQuery(table_name, limit)))

-----------------------------------------------------------------------------
(* SQL editor: modules/sql_editor.py *)

\* the history entry execute_sql_query adds for the gateway's outcome r: a
\* success with the frame's row count, or a failure
Recorded(ss, now, query, r) ==
    IF ~r.raised
    THEN [session |-> add_to_query_history(ss, now, query, TRUE, len(r.frame)),
          conns |-> r.conns, files |-> r.files, executed |-> TRUE,
          raised |-> FALSE, frame |-> r.frame]
    ELSE [session |-> add_to_query_history(ss, now, query, FALSE, 0),
          conns |-> r.conns, files |-> r.files, executed |-> TRUE,
          raised |-> TRUE, frame |-> NoFrame]

\* the table list is read again after the statement
Refreshed(r, conn) ==
    [r EXCEPT !.session.tables = get_table_list(View(r.conns, r.files, conn))]

execute_sql_query_refreshes_tables(ss, cn, fs, now, query) ==
    IF strip(query) = <<>>
    THEN [session |-> ss, conns |-> cn, files |-> fs, executed |-> FALSE,
          raised |-> FALSE, frame |-> NoFrame]
    ELSE Refreshed(Recorded(ss, now, query,
                            execute_query(cn, fs, ss.connection, query)),
                   ss.connection)

\* a blank text is refused; otherwise the query is executed and recorded
execute_sql_query(ss, cn, fs, now, query) ==
    IF strip(query) = <<>>
    THEN [session |-> ss, conns |-> cn, files |-> fs, executed |-> FALSE,
          raised |-> FALSE, frame |-> NoFrame]
    ELSE Recorded(ss, now, query, execute_query(cn, fs, ss.connection, query))

-----------------------------------------------------------------------------
(* Table editor: modules/table_editor.py *)

StrPrimaryKey == <<"P", "R", "I", "M", "A", "R", "Y", " ", "K", "E", "Y">>
StrAutoincrement == <<"A", "U", "T", "O", "I", "N", "C", "R", "E", "M", "E", "N", "T">>
StrInt == <<"I", "N", "T">>
StrReal == <<"R", "E", "A", "L">>
StrFloat == <<"F", "L", "O", "A", "T">>
StrDouble == <<"D", "O", "U", "B", "L", "E">>

\* sub in s
Contains(s, sub) ==
    \E i \in 1..(Len(s) - Len(sub) + 1) : SubSeq(s, i, i + Len(sub) - 1) = sub

\* the test the form applies to skip a column (row i of PRAGMA table_info)
FormSkips(t, i) ==
    /\ Contains(str_int(t.pk[i]), StrPrimaryKey)
    /\ Contains(upper(Chars(t.types[i])), StrAutoincrement)

\* the input widget the form shows for a column type
WidgetKind(col_type) ==
    IF Contains(col_type, StrInt) THEN "int"
    ELSE IF Contains(col_type, StrReal) \/ Contains(col_type, StrFloat)
            \/ Contains(col_type, StrDouble) THEN "float"
    ELSE "text"

\* what the user enters in the form: every widget left at its default, or
\* every widget filled in
FormFills == {"defaults", "filled"}

\* the value a widget returns: number_input an int or a float, text_input a str;
\* chars is str(value)
WidgetValue(kind, fill) ==
    CASE kind = "int" ->
            [is_str |-> FALSE, chars |-> IF fill = "defaults" THEN <<"0">> ELSE <<"3">>]
      [] kind = "float" ->
            [is_str |-> FALSE,
             chars |-> IF fill = "defaults" THEN <<"0", ".", "0">> ELSE <<"1", ".", "5">>]
      [] OTHER ->
            [is_str |-> TRUE, chars |-> IF fill = "defaults" THEN <<>> ELSE <<"a">>]

\* the inputs dictionary of the form, in column order: <<column, value>>
FormInputs(t, fill) ==
    LET shown == SelectSeq([i \in DOMAIN t.columns |-> i], LAMBDA i : ~FormSkips(t, i))
    IN  [j \in DOMAIN shown |->
            [column |-> t.columns[shown[j]],
             value |-> WidgetValue(WidgetKind(upper(Chars(t.types[shown[j]]))), fill)]]

\* data.keys(): the columns the form passes to insert_row, in order
FormColumns(t) ==
    [j \in DOMAIN FormInputs(t, "defaults") |-> FormInputs(t, "defaults")[j].column]

\* sep.join(parts)
RECURSIVE join(_, _)
join(sep, parts) ==
    IF parts = <<>> THEN <<>>
    ELSE IF Len(parts) = 1 THEN parts[1]
    ELSE parts[1] \o sep \o join(sep, Tail(parts))

\* f"INSERT INTO {table_name} ({columns}) VALUES ({values})"
InsertQuery(table_name, data) ==
    LET columns == join(<<",", " ">>, [i \in DOMAIN data |-> Chars(data[i].column)])
        values == join(<<",", " ">>,
                       [i \in DOMAIN data |->
                          IF data[i].value.is_str
                          THEN <<"'">> \o data[i].value.chars \o <<"'">>
                          ELSE data[i].value.chars])
    IN  KwInsert \o <<" ">> \o KwInto \o <<" ">> \o Chars(table_name)
            \o <<" ", "(">> \o columns \o <<")", " ">> \o KwValues
            \o <<" ", "(">> \o values \o <<")">>

\* what insert_row reports for the gateway's outcome r
Inserted(query, r) ==
    [conns |-> r.conns, files |-> r.files, raised |-> r.raised,
     rerun |-> ~r.raised, query |-> query, frame |-> r.frame]

\* builds the INSERT and executes it; on success the script is rerun
insert_row(cn, fs, conn, table_name, data) ==
    Inserted(InsertQuery(table_name, data),
             execute_query(cn, fs, conn, InsertQuery(table_name, data)))

\* the value a selectbox returns: the stored choice when it is one of the
\* options, else the first option
Selectbox(stored, options) ==
    IF stored \in Range(options) THEN stored ELSE options[1]

-----------------------------------------------------------------------------
(* Exporter: modules/exporter.py *)

ExportFormats == {"CSV", "JSON", "Excel"}

\* f"SELECT * FROM {table_name}"
ExportQuery(table_name) ==
    KwSelect \o <<" ", "*", " ">> \o KwFrom \o <<" ">> \o Chars(table_name)

\* to_csv / to_json of a frame keep its columns and rows; to_excel(index=False)
\* lacks its excel_writer argument and raises
Encode(df, format) ==
    [raised |-> format = "Excel",
     data |-> IF format = "Excel" THEN [format |-> format, content |-> NoFrame]
              ELSE [format |-> format, content |-> df]]

\* what export_table_data and export_query_results do with the frame of their
\* query: nothing to download when it raised, is empty or cannot be encoded
Export(r, format) ==
    LET enc == Encode(r.frame, format)
    IN  [conns |-> r.conns, files |-> r.files,
         raised |-> r.raised \/ (~empty(r.frame) /\ enc.raised),
         offered |-> ~r.raised /\ ~empty(r.frame) /\ ~enc.raised,
         data |-> enc.data, frame |-> r.frame]

\* only the first row of the table is exported
export_table_data_first_row(cn, fs, conn, table_name, format) ==
    Export(get_table_preview(cn, fs, conn, table_name, 1), format)

export_table_data(cn, fs, conn, table_name, format) ==
    Export(execute_query(cn, fs, conn, ExportQuery(table_name)), format)

export_query_results(cn, fs, conn, query, format) ==
    Export(execute_query(cn, fs, conn, query), format)

-----------------------------------------------------------------------------
(* Settings tab: app.py render_settings *)

\* the positions of the slider the user may choose (min 10, max 500, step 10)
SliderValues == {100, 250}

\* the slider's value is stored when it differs from the preference; the
\* Clear Query History button empties the history
render_settings(ss, rows_per_page, clear_clicked) ==
    LET updated == IF rows_per_page # ss.preferences.rows_per_page
                   THEN update_preference(ss, "rows_per_page", rows_per_page).session
                   ELSE ss
    IN  IF clear_clicked THEN [updated EXCEPT !.query_history = <<>>] ELSE updated

-----------------------------------------------------------------------------
(* The request cycle: app.py main(), one step per component it renders.  A
   user interaction starts a script run; the widget it belongs to sees it when
   the script reaches that widget, and no other widget of the run does. *)

\* the interaction that started the run has not been seen by a widget yet
Pending == "pending"
NoEvent == "none"

NoCall == [op |-> "none"]

NoWidgets == [table_selectbox |-> NoTable, editor_table_select |-> NoTable]

Init ==
    /\ session = EmptySession
    /\ uploaded_file = NoUpload
    /\ files = <<>>
    /\ conns = <<>>
    /\ clock = 0
    /\ pc = "main"
    /\ event = NoEvent
    /\ widgets = NoWidgets
    /\ lastCall = NoCall

\* what the environment can let happen during an upload, given the session
UploadEnvs(ss) ==
    [persist : PersistOutcomes,
     close_raises : IF Truthy(ss.connection) THEN BOOLEAN ELSE {FALSE},
     connect : ConnectOutcomes]

\* only the choices that are looked at differ
Relevant(env) ==
    /\ env.persist # "ok" => env.connect = "ok" /\ ~env.close_raises

\* main() up to the sidebar: init_session_state()
Main ==
    /\ pc = "main"
    /\ session' = init_session_state(session)
    /\ pc' = "render_file_uploader"
    /\ lastCall' = [op |-> "init_session_state", pre |-> session]
    /\ UNCHANGED <<uploaded_file, files, conns, clock, event, widgets>>

\* render_file_uploader(), and st.rerun() when it reports a new database
RenderFileUploader ==
    /\ pc = "render_file_uploader"
    /\ IF uploaded_file = NoUpload
       THEN /\ pc' = "render_database_info"
            /\ lastCall' = NoCall
            /\ UNCHANGED <<session, files, conns, event>>
       ELSE /\ Len(files) < MaxPaths
            /\ \E env \in UploadEnvs(session) :
                 /\ Relevant(env)
                 /\ LET r == handle_uploaded_file(World, uploaded_file,
                                                  UploadBytes(uploaded_file), env)
                    IN  /\ session' = r.session
                        /\ files' = r.files
                        /\ conns' = r.conns
                        /\ pc' = IF r.ret THEN "main" ELSE "render_database_info"
                        /\ event' = IF r.ret THEN NoEvent ELSE event
                        /\ lastCall' = [op |-> "handle_uploaded_file", pre |-> session,
                                        pre_conns |-> conns, env |-> env,
                                        ret |-> r.ret, raised |-> r.raised]
    /\ UNCHANGED <<uploaded_file, clock, widgets>>

\* render_database_info(): the Clear Database button, then st.rerun()
RenderDatabaseInfo ==
    /\ pc = "render_database_info"
    /\ \/ /\ Truthy(session.connection) /\ event = Pending
          /\ \E close_raises \in BOOLEAN :
               LET r == clear_database_state(session, conns, close_raises)
               IN  /\ session' = r.session
                   /\ conns' = r.conns
                   /\ lastCall' = [op |-> "clear_database_state", pre |-> session,
                                   pre_conns |-> conns, close_raises |-> close_raises]
          /\ pc' = "main"
          /\ event' = NoEvent
       \/ /\ pc' = IF Truthy(session.connection)
                   THEN "render_database_explorer" ELSE "render_welcome_screen"
          /\ lastCall' = NoCall
          /\ UNCHANGED <<session, conns, event>>
    /\ UNCHANGED <<uploaded_file, files, clock, widgets>>

\* create_sample_database(): the sample is built in a temp file of its own on a
\* connection of its own, read back and handed to handle_uploaded_file
SampleBuild(w) ==
    [session |-> w.session,
     files |-> Append(w.files, [origin |-> "sample_build", uploaded |-> NotADatabase,
                                db |-> SampleBytes]),
     conns |-> Append(w.conns, [path |-> Len(w.files) + 1, open |-> FALSE,
                                close_failed |-> FALSE, returned |-> FALSE,
                                in_transaction |-> FALSE, uncommitted |-> NotADatabase])]

\* render_welcome_screen(): the Create Sample Database button, then st.rerun().
\* The tabs are not rendered in this run, so their widgets lose their state.
RenderWelcomeScreen ==
    /\ pc = "render_welcome_screen"
    /\ \/ /\ event = Pending
          /\ Len(files) + 1 < MaxPaths
          /\ \E env \in UploadEnvs(session) :
               /\ Relevant(env)
               /\ LET r == handle_uploaded_file(SampleBuild(World), "sample",
                                                SampleBytes, env)
                  IN  /\ session' = r.session
                      /\ files' = r.files
                      /\ conns' = r.conns
                      /\ lastCall' = [op |-> "handle_uploaded_file", pre |-> session,
                                      pre_conns |-> SampleBuild(World).conns,
                                      env |-> env, ret |-> r.ret, raised |-> r.raised]
          /\ pc' = "main"
       \/ /\ pc' = "idle"
          /\ lastCall' = NoCall
          /\ UNCHANGED <<session, files, conns>>
    /\ event' = NoEvent
    /\ widgets' = NoWidgets
    /\ UNCHANGED <<uploaded_file, clock>>

\* the values a selectbox can return in this run: its stored value, or another
\* option when the user's interaction was to change it
SelectboxReturns(stored, options) ==
    {t \in Range(options) : t = Selectbox(stored, options) \/ event = Pending}

\* render_database_explorer(): render_table_list() stores the selectbox's value
\* in selected_table, render_table_details() previews the selected table
RenderDatabaseExplorer ==
    /\ pc = "render_database_explorer"
    /\ IF session.tables = <<>>
       THEN /\ lastCall' = [op |-> "render_table_list"]
            /\ UNCHANGED <<session, widgets, conns, files, event>>
       ELSE \E selected_table \in SelectboxReturns(widgets.table_selectbox,
                                                   session.tables) :
              LET limit == session.preferences.rows_per_page
                  r == get_table_preview(conns, files, session.connection,
                                         selected_table, limit)
              IN  /\ session' = [session EXCEPT !.selected_table = selected_table]
                  /\ widgets' = [widgets EXCEPT !.table_selectbox = selected_table]
                  /\ event' = IF selected_table = Selectbox(widgets.table_selectbox,
                                                            session.tables)
                              THEN event ELSE NoEvent
                  /\ conns' = r.conns
                  /\ files' = r.files
                  /\ lastCall' = [op |-> "render_data_preview",
                                  table |-> selected_table, limit |-> limit,
                                  raised |-> r.raised, frame |-> r.frame]
    /\ pc' = "render_sql_editor"
    /\ UNCHANGED <<uploaded_file, clock>>

\* the texts the user types in the SQL editor and in the export tab
EditorTexts == {qSelect, qSelectMissing, qInsert, qCreate, qDrop, qBlank}
ExportTexts == {qSelect, qDelete}

\* render_sql_editor(): the Run Query button
RenderSqlEditor ==
    /\ pc = "render_sql_editor"
    /\ \/ /\ event = Pending
          /\ clock < MaxQueries
          /\ \E query \in EditorTexts :
               LET r == execute_sql_query(session, conns, files, clock, query)
               IN  /\ session' = r.session
                   /\ conns' = r.conns
                   /\ files' = r.files
                   /\ lastCall' = [op |-> "execute_sql_query", pre |-> session,
                                   query |-> query, executed |-> r.executed,
                                   raised |-> r.raised, frame |-> r.frame]
          /\ clock' = clock + 1
          /\ event' = NoEvent
       \/ /\ lastCall' = NoCall
          /\ UNCHANGED <<session, conns, files, clock, event>>
    /\ pc' = "render_table_editor"
    /\ UNCHANGED <<uploaded_file, widgets>>

\* PRAGMA table_info through pandas: raises on bytes that are no database and
\* is empty for a table that is not there
SchemaAvailable(table_name) ==
    LET db == View(conns, files, session.connection)
    IN  db.valid /\ table_name \in DOMAIN db.tables

\* render_table_editor() up to the insert form: the Insert Row button
RenderTableEditor ==
    /\ pc = "render_table_editor"
    /\ IF session.tables = <<>>
       THEN /\ pc' = "render_exporter"
            /\ lastCall' = NoCall
            /\ UNCHANGED <<conns, files, clock, event, widgets>>
       ELSE \E selected_table \in SelectboxReturns(widgets.editor_table_select,
                                                   session.tables) :
              /\ widgets' = [widgets EXCEPT !.editor_table_select = selected_table]
              /\ \/ /\ selected_table = Selectbox(widgets.editor_table_select,
                                                  session.tables)
                    /\ event = Pending
                    /\ clock < MaxQueries
                    /\ SchemaAvailable(selected_table)
                    /\ \E fill \in FormFills :
                         LET t == View(conns, files,
                                       session.connection).tables[selected_table]
                             r == insert_row(conns, files, session.connection,
                                             selected_table, FormInputs(t, fill))
                         IN  /\ conns' = r.conns
                             /\ files' = r.files
                             /\ pc' = IF r.rerun THEN "main"
                                      ELSE "render_update_interface"
                             /\ lastCall' = [op |-> "insert_row", pre |-> session,
                                             table |-> selected_table,
                                             columns |-> FormColumns(t),
                                             query |-> r.query, raised |-> r.raised]
                    /\ clock' = clock + 1
                    /\ event' = NoEvent
                 \/ /\ pc' = "render_update_interface"
                    /\ event' = IF selected_table = Selectbox(widgets.editor_table_select,
                                                              session.tables)
                                THEN event ELSE NoEvent
                    /\ lastCall' = NoCall
                    /\ UNCHANGED <<conns, files, clock>>
    /\ UNCHANGED <<session, uploaded_file>>

\* the row limit render_update_interface() passes to get_table_preview
UpdatePreviewLimit == 20

\* render_update_interface(): the reference preview of the Update Row tab
RenderUpdateInterface ==
    /\ pc = "render_update_interface"
    /\ LET r == get_table_preview(conns, files, session.connection,
                                  widgets.editor_table_select, UpdatePreviewLimit)
       IN  /\ conns' = r.conns
           /\ files' = r.files
           /\ lastCall' = [op |-> "render_update_interface",
                           table |-> widgets.editor_table_select,
                           limit |-> UpdatePreviewLimit, raised |-> r.raised,
                           frame |-> r.frame]
    /\ pc' = "render_exporter"
    /\ UNCHANGED <<session, uploaded_file, clock, event, widgets>>

\* the bytes as they were uploaded are offered
DatabaseFile_as_uploaded(fs) ==
    IF Truthy(session.db_path) THEN fs[session.db_path].uploaded ELSE NotADatabase

\* the bytes render_database_export() offers for download: the content of the
\* file at db_path when the third export tab is rendered
DatabaseFile(fs) ==
    IF Truthy(session.db_path) THEN fs[session.db_path].db ELSE NotADatabase

\* render_exporter(): the Export Table and Export Query Results buttons, and
\* the download of the database file, which is offered on every run.  The
\* choice in the export tab's selectbox comes with the button press.
RenderExporter ==
    /\ pc = "render_exporter"
    /\ \/ /\ event = Pending
          /\ \E table_name \in Range(session.tables) : \E format \in ExportFormats :
               LET r == export_table_data(conns, files, session.connection,
                                          table_name, format)
               IN  /\ conns' = r.conns
                   /\ files' = r.files
                   /\ lastCall' = [op |-> "export_table_data", pre |-> session,
                                   table |-> table_name, format |-> format,
                                   raised |-> r.raised, offered |-> r.offered,
                                   data |-> r.data,
                                   db_data |-> DatabaseFile(r.files)]
          /\ event' = NoEvent
          /\ UNCHANGED clock
       \/ /\ event = Pending
          /\ clock < MaxQueries
          /\ \E query \in ExportTexts : \E format \in ExportFormats :
               LET r == export_query_results(conns, files, session.connection,
                                             query, format)
               IN  /\ conns' = r.conns
                   /\ files' = r.files
                   /\ lastCall' = [op |-> "export_query_results", pre |-> session,
                                   query |-> query, format |-> format,
                                   raised |-> r.raised, offered |-> r.offered,
                                   data |-> r.data,
                                   db_data |-> DatabaseFile(r.files)]
          /\ clock' = clock + 1
          /\ event' = NoEvent
       \/ /\ lastCall' = [op |-> "render_database_export",
                          db_data |-> DatabaseFile(files)]
          /\ UNCHANGED <<conns, files, clock, event>>
    /\ pc' = "render_settings"
    /\ UNCHANGED <<session, uploaded_file, widgets>>

\* render_settings(): the slider and the Clear Query History button
RenderSettings ==
    /\ pc = "render_settings"
    /\ \E rows_per_page \in SliderValues \cup {session.preferences.rows_per_page} :
       \E clear_clicked \in BOOLEAN :
         /\ rows_per_page # session.preferences.rows_per_page => event = Pending
         /\ clear_clicked =>
              event = Pending /\ rows_per_page = session.preferences.rows_per_page
         /\ session' = render_settings(session, rows_per_page, clear_clicked)
         /\ lastCall' = [op |-> "render_settings", pre |-> session,
                         rows_per_page |-> rows_per_page,
                         clear_clicked |-> clear_clicked]
    /\ pc' = "idle"
    /\ event' = NoEvent
    /\ UNCHANGED <<uploaded_file, files, conns, clock, widgets>>

-----------------------------------------------------------------------------
(* The user.  The uploader can be changed when the page has rendered and when
   a rerun is about to start; the other widgets are used when the page has
   rendered. *)

UserChoosesFile ==
    /\ pc \in {"idle", "main"}
    /\ Len(files) < MaxPaths
    /\ \E f \in Uploads : uploaded_file' = f
    /\ pc' = "main"
    /\ event' = NoEvent
    /\ lastCall' = NoCall
    /\ UNCHANGED <<session, files, conns, clock, widgets>>

UserRemovesFile ==
    /\ pc \in {"idle", "main"}
    /\ uploaded_file # NoUpload
    /\ uploaded_file' = NoUpload
    /\ pc' = "main"
    /\ event' = NoEvent
    /\ lastCall' = NoCall
    /\ UNCHANGED <<session, files, conns, clock, widgets>>

\* a button press, a new selectbox choice or a move of the slider
UserInteracts ==
    /\ pc = "idle"
    /\ pc' = "main"
    /\ event' = Pending
    /\ lastCall' = NoCall
    /\ UNCHANGED <<session, uploaded_file, files, conns, clock, widgets>>

Next ==
    \/ Main
    \/ RenderFileUploader
    \/ RenderDatabaseInfo
    \/ RenderWelcomeScreen
    \/ RenderDatabaseExplorer
    \/ RenderSqlEditor
    \/ RenderTableEditor
    \/ RenderUpdateInterface
    \/ RenderExporter
    \/ RenderSettings
    \/ UserChoosesFile
    \/ UserRemovesFile
    \/ UserInteracts

Spec == Init /\ [][Next]_vars

-----------------------------------------------------------------------------
(* The session state store called directly *)

\* the state the three direct specifications leave alone
Untouched ==
    /\ uploaded_file = NoUpload
    /\ event = NoEvent
    /\ widgets = NoWidgets

StoreInit ==
    /\ session = init_session_state(EmptySession)
    /\ files = <<>>
    /\ conns = <<>>
    /\ clock = 0
    /\ pc = "store"
    /\ lastCall = NoCall
    /\ Untouched

\* the arguments of add_to_query_history: query, success, rows_returned
HistoryArgs ==
    {[query |-> qSelect, success |-> TRUE, rows_returned |-> 1],
     [query |-> qSelectMissing, success |-> FALSE, rows_returned |-> 0],
     [query |-> qDrop, success |-> TRUE, rows_returned |-> 1]}

OddEntries(history) == {i \in DOMAIN history : history[i].query # qSelect}

\* one call of add_to_query_history; the clock ticks between two calls
AddToQueryHistory ==
    /\ clock < MaxStoreCalls
    /\ \E args \in HistoryArgs :
         /\ args.query # qSelect =>
                Cardinality(OddEntries(session.query_history)) < MaxOddEntries
         /\ session' = add_to_query_history(session, clock, args.query,
                                            args.success, args.rows_returned)
         /\ lastCall' = [op |-> "add_to_query_history", now |-> clock, args |-> args]
    /\ clock' = clock + 1
    /\ UNCHANGED <<uploaded_file, files, conns, pc, event, widgets>>

\* init_session_state() of a later script run
InitSessionState ==
    /\ session' = init_session_state(session)
    /\ lastCall' = [op |-> "init_session_state"]
    /\ UNCHANGED <<uploaded_file, files, conns, clock, pc, event, widgets>>

NextHistory == AddToQueryHistory \/ InitSessionState

SpecHistory == StoreInit /\ [][NextHistory]_vars

\* the keys update_preference is called with, and the values per key
PreferenceKeys == {"rows_per_page", "theme", "auto_run_queries", "bogus_key", "db_path"}

PreferenceValues(key) ==
    CASE key = "rows_per_page" -> {5, 10, 100, 250, 500}
      [] key = "theme" -> {"light", "dark"}
      [] key = "auto_run_queries" -> BOOLEAN
      [] OTHER -> {1}

\* one call of update_preference
UpdatePreference ==
    /\ \E key \in PreferenceKeys : \E value \in PreferenceValues(key) :
         LET r == update_preference(session, key, value)
         IN  /\ session' = r.session
             /\ lastCall' = [op |-> "update_preference", pre |-> session,
                             key |-> key, value |-> value, ret |-> r.ret]
    /\ UNCHANGED <<uploaded_file, files, conns, clock, pc, event, widgets>>

NextPreferences == UpdatePreference \/ InitSessionState

SpecPreferences == StoreInit /\ [][NextPreferences]_vars

-----------------------------------------------------------------------------
(* The query gateway called directly on the handle of a loaded file *)

\* the world after f has been loaded into a fresh session
Loaded(f) ==
    handle_uploaded_file([session |-> init_session_state(EmptySession),
                          files |-> <<>>, conns |-> <<>>],
                         f, UploadBytes(f),
                         [persist |-> "ok", close_raises |-> FALSE, connect |-> "ok"])

GatewayInit ==
    /\ \E f \in Uploads :
         /\ session = Loaded(f).session
         /\ files = Loaded(f).files
         /\ conns = Loaded(f).conns
    /\ clock = 0
    /\ pc = "gateway"
    /\ lastCall = NoCall
    /\ Untouched

\* one call of execute_query; backend is what sqlite did with the text
ExecuteQuery ==
    /\ clock < MaxGatewayCalls
    /\ \E query \in QueryTexts :
         LET r == execute_query(conns, files, session.connection, query)
         IN  /\ conns' = r.conns
             /\ files' = r.files
             /\ lastCall' = [op |-> "execute_query", query |-> query,
                             pre_conns |-> conns, pre_files |-> files,
                             backend |-> Run(conns, files, session.connection,
                                             query).result,
                             raised |-> r.raised, frame |-> r.frame,
                             path |-> r.path, committed |-> r.committed]
    /\ clock' = clock + 1
    /\ UNCHANGED <<session, uploaded_file, pc, event, widgets>>

SpecGateway == GatewayInit /\ [][ExecuteQuery]_vars

-----------------------------------------------------------------------------
(* Properties *)

\* init_session_state has run: every field of the session is present
Initialized == DOMAIN session = DOMAIN SessionDefaults

SessionFields == DOMAIN SessionDefaults

OpenHandles == {h \in DOMAIN conns : conns[h].open}

\* the table names of the bytes of the file at path, without the backend's own
UserTables(path) ==
    {n \in DOMAIN files[path].uploaded.tables : ~LikeSqlite(n)}

\* C1: when handle_uploaded_file fails (the bytes cannot be persisted or
\* connect_to_database raises) it reports failure and every field of the
\* session has the value it had before the call, whatever the prior state.
C1_FailedUploadLeavesSession ==
    lastCall.op = "handle_uploaded_file" /\ lastCall.raised =>
        /\ ~lastCall.ret
        /\ \A k \in SessionFields : session[k] = lastCall.pre[k]

C3_ConnectionIffPath ==
    Initialized => (Truthy(session.connection) <=> Truthy(session.db_path))

\* an upload failed while a database was loaded
C3_UploadFailedOverDatabase ==
    /\ lastCall.op = "handle_uploaded_file" /\ lastCall.raised
    /\ lastCall.env.persist = "ok"
    /\ Truthy(lastCall.pre.connection)

\* C4: selected_table is unset or one of the current tables; an operation
\* that replaces tables clears a selection that is no longer in it.
C4_SelectedTableInTables ==
    Initialized =>
        session.selected_table = NoTable
            \/ session.selected_table \in Range(session.tables)

\* a file was loaded whose tables do not hold the table that was selected
C4_SelectionReplaced ==
    /\ lastCall.op = "handle_uploaded_file" /\ lastCall.ret
    /\ lastCall.pre.selected_table # NoTable
    /\ lastCall.pre.selected_table \notin Range(session.tables)
    /\ session.tables # <<>>

\* C5: after any sequence of add_to_query_history calls the history has at
\* most 50 entries, the entry of the most recent call is at index 0, and the
\* entries are those of the most recent calls, most recent first.
C5_HistoryBoundedNewestFirst ==
    /\ Len(session.query_history) <= 50
    /\ Len(session.query_history) = Min(clock, 50)
    /\ \A i \in DOMAIN session.query_history :
           session.query_history[i].timestamp = clock - i
    /\ lastCall.op = "add_to_query_history" =>
           /\ session.query_history[1].query = lastCall.args.query
           /\ session.query_history[1].success = lastCall.args.success
           /\ session.query_history[1].rows_returned = lastCall.args.rows_returned
           /\ session.query_history[1].timestamp = lastCall.now

\* a call has dropped the oldest entry of a full history
C5_Overflowed ==
    /\ lastCall.op = "add_to_query_history"
    /\ clock > HistoryCap
    /\ Len(session.query_history) = HistoryCap
    /\ OddEntries(session.query_history) # {}

\* C6: clear_database_state unsets connection, db_path and selected_table,
\* empties tables and leaves query_history and preferences as they were,
\* whether or not close() raises; the history and the preferences survive
\* every swap of the database.
C6_ClearKeepsHistoryAndPreferences ==
    /\ lastCall.op = "clear_database_state" =>
           /\ session.connection = None
           /\ session.db_path = None
           /\ session.selected_table = NoTable
           /\ session.tables = <<>>
           /\ session.query_history = lastCall.pre.query_history
           /\ session.preferences = lastCall.pre.preferences
           /\ session.active_tab = lastCall.pre.active_tab
    /\ lastCall.op = "handle_uploaded_file" =>
           /\ session.query_history = lastCall.pre.query_history
           /\ session.preferences = lastCall.pre.preferences

\* Clear Database was pressed with a history and a changed preference, and
\* close() raised
C6_ClearedWithHistory ==
    /\ lastCall.op = "clear_database_state"
    /\ lastCall.close_raises
    /\ lastCall.pre.selected_table # NoTable
    /\ session.query_history # <<>>
    /\ session.preferences # DefaultPreferences

\* C7: update_preference succeeds and changes only preferences[key] when key
\* is an existing preference key; for any other key it fails and changes
\* nothing; the keys of preferences are always rows_per_page, theme and
\* auto_run_queries.
C7_UpdateOnlyKnownKeys ==
    /\ DOMAIN session.preferences = {"rows_per_page", "theme", "auto_run_queries"}
    /\ lastCall.op = "update_preference" =>
           /\ lastCall.ret <=>
                  lastCall.key \in {"rows_per_page", "theme", "auto_run_queries"}
           /\ lastCall.ret => session.preferences[lastCall.key] = lastCall.value
           /\ \A k \in DOMAIN lastCall.pre.preferences :
                  k # lastCall.key =>
                      session.preferences[k] = lastCall.pre.preferences[k]
           /\ ~lastCall.ret => session = lastCall.pre
           /\ \A k \in SessionFields \ {"preferences"} :
                  session[k] = lastCall.pre[k]

\* a call with an unknown key was refused after a preference had been changed
C7_UnknownKeyRefused ==
    /\ lastCall.op = "update_preference"
    /\ lastCall.key = "bogus_key"
    /\ ~lastCall.ret
    /\ session.preferences # DefaultPreferences

\* the operations that issue a table preview
PreviewOps == {"render_data_preview", "render_update_interface"}

\* C8: once update_preference('rows_per_page', n) has succeeded, every table
\* preview uses n as its row limit until the preference is changed again.
C8_PreviewsUseRowsPerPage ==
    /\ lastCall.op \in PreviewOps
    /\ session.preferences.rows_per_page # DefaultPreferences.rows_per_page
    => lastCall.limit = session.preferences.rows_per_page

\* the first keyword of a text, as the backend reads it, is SELECT
FirstKeywordIsSelect(query) ==
    /\ Tokens(strip(query)) # <<>>
    /\ Tokens(strip(query))[1] = Word(KwSelect)

\* C9: a text whose first keyword, stripped and ignoring case, is SELECT takes
\* the read path (its rows are returned as the frame, nothing is committed
\* and no data changes); every other text takes the write path.
C9_SelectTakesReadPath ==
    lastCall.op = "execute_query" =>
        /\ FirstKeywordIsSelect(lastCall.query) <=> lastCall.path = "read"
        /\ lastCall.path = "read" =>
               /\ ~lastCall.committed
               /\ files = lastCall.pre_files
               /\ conns = lastCall.pre_conns
               /\ ~lastCall.raised =>
                      lastCall.frame = Frame(lastCall.backend.columns,
                                             lastCall.backend.rows)

\* C10: a statement other than SELECT that executes successfully is committed
\* before execute_query returns, and the frame returned has one row and one
\* column holding a status string: the affected-row count when the backend's
\* rowcount is not negative, the generic success string otherwise.
C10_WriteCommitsAndReports ==
    lastCall.op = "execute_query" /\ lastCall.path = "write" /\ ~lastCall.raised =>
        /\ lastCall.committed
        /\ ~conns[session.connection].in_transaction
        /\ files[session.db_path].db = lastCall.backend.db
        /\ Len(lastCall.frame.columns) = 1
        /\ Len(lastCall.frame.rows) = 1
        /\ Len(lastCall.frame.rows[1]) = 1
        /\ lastCall.frame.rows[1][1] =
               IF lastCall.backend.rowcount >= 0
               THEN "Query executed successfully. Rows affected: "
                        \o Join(str_int(lastCall.backend.rowcount))
               ELSE "Query executed successfully."

\* an INSERT was executed and its row is in the file
C10_RowWritten ==
    /\ lastCall.op = "execute_query" /\ lastCall.path = "write" /\ ~lastCall.raised
    /\ lastCall.backend.rowcount = 1
    /\ files # lastCall.pre_files

\* the history entry add_to_query_history would have made of a failed query
FailureRecorded(query) ==
    /\ Len(session.query_history) = Len(lastCall.pre.query_history) + 1
    /\ session.query_history[1].query = query
    /\ session.query_history[1].success = FALSE
    /\ session.query_history[1].rows_returned = 0

\* C11: every user-triggered query that fails (Run Query, Export Query
\* Results, Insert Row) is recorded in query_history with success = false and
\* rows_returned = 0, and connection, db_path, tables and preferences are
\* left as they were.
C11_FailedQueryRecorded ==
    /\ lastCall.op = "execute_sql_query" /\ lastCall.executed /\ lastCall.raised =>
           FailureRecorded(lastCall.query)
    /\ lastCall.op = "export_query_results" /\ lastCall.raised
            /\ lastCall.format # "Excel" =>
           FailureRecorded(lastCall.query)
    /\ lastCall.op = "insert_row" /\ lastCall.raised =>
           FailureRecorded(lastCall.query)
    /\ lastCall.op \in {"execute_sql_query", "export_query_results", "insert_row"}
            /\ lastCall.raised =>
           /\ session.connection = lastCall.pre.connection
           /\ session.db_path = lastCall.pre.db_path
           /\ session.tables = lastCall.pre.tables
           /\ session.preferences = lastCall.pre.preferences

\* the fields S of a session, the others absent
Restrict(ss, S) == [k \in S |-> ss[k]]

\* C12: init_session_state assigns a default only to the fields that are
\* absent and leaves every present field (an open connection, a non-empty
\* history, changed preferences) as it was, so a second call changes nothing.
C12_InitIdempotent ==
    lastCall.op = "init_session_state" =>
        /\ \A k \in DOMAIN lastCall.pre : session[k] = lastCall.pre[k]
        /\ \A k \in SessionFields \ DOMAIN lastCall.pre :
               session[k] = SessionDefaults[k]
        /\ init_session_state(session) = session
        /\ \A S \in SUBSET DOMAIN lastCall.pre :
               LET part == Restrict(lastCall.pre, S)
                   once == init_session_state(part)
               IN  /\ DOMAIN once = SessionFields
                   /\ \A k \in S : once[k] = part[k]
                   /\ \A k \in SessionFields \ S : once[k] = SessionDefaults[k]
                   /\ init_session_state(once) = once

\* a script run started with an open connection, a history and a changed
\* preference
C12_InitOverLiveSession ==
    /\ lastCall.op = "init_session_state"
    /\ DOMAIN lastCall.pre = SessionFields
    /\ Truthy(lastCall.pre.connection)
    /\ lastCall.pre.query_history # <<>>
    /\ lastCall.pre.preferences # DefaultPreferences
    /\ lastCall.pre.selected_table # NoTable

\* C13: each call of handle_uploaded_file that creates its temp file creates
\* it under a path no earlier call used: every file that existed keeps its
\* content, and a loaded database's db_path is the new path.
C13_FreshTempPath ==
    [][lastCall'.op = "handle_uploaded_file" =>
           /\ \A p \in DOMAIN files : p \in DOMAIN files' /\ files'[p] = files[p]
           /\ lastCall'.env.persist # "create_fails" => Len(files') > Len(files)
           /\ lastCall'.ret =>
                  /\ session'.db_path = Len(files')
                  /\ session'.db_path \notin DOMAIN files
                  /\ \A h \in DOMAIN conns : conns[h].path # session'.db_path]_vars

\* the file already loaded was uploaded again while its first temp file had
\* been written to through its handle
C13_UploadedAgainAfterWrite ==
    /\ lastCall.op = "handle_uploaded_file" /\ lastCall.ret
    /\ Truthy(lastCall.pre.db_path)
    /\ files[lastCall.pre.db_path].origin = files[session.db_path].origin
    /\ files[lastCall.pre.db_path].db # files[lastCall.pre.db_path].uploaded
    /\ files[session.db_path].db = files[session.db_path].uploaded

\* C14: in every reachable state preferences.rows_per_page is an integer
\* greater than or equal to 10, whatever update_preference was called with.
C14_RowsPerPageAtLeast10 ==
    /\ session.preferences.rows_per_page \in Int
    /\ session.preferences.rows_per_page >= 10

\* 'select * from <table_name>' as a user types it in the export tab
SelectAll(table_name) ==
    <<"s", "e", "l", "e", "c", "t", " ", "*", " ", "f", "r", "o", "m", " ">>
        \o Chars(table_name)

\* two exports offer the same download, or both offer none
SameExport(a, b) ==
    /\ a.offered = b.offered
    /\ a.raised = b.raised
    /\ a.offered => a.data = b.data

\* C15: on the same database state, exporting a table and exporting the
\* result of SELECT * FROM that table give the same rows in the same format,
\* and neither offers a download when the table is empty.
C15_TableExportIsSelectAll ==
    /\ lastCall.op = "export_table_data" =>
           /\ SameExport(lastCall,
                         export_query_results(conns, files, session.connection,
                                              SelectAll(lastCall.table),
                                              lastCall.format))
           /\ lastCall.offered =>
                  lastCall.data.content.rows =
                      files[session.db_path].db.tables[lastCall.table].rows
           /\ ~lastCall.raised /\ ~lastCall.offered =>
                  files[session.db_path].db.tables[lastCall.table].rows = <<>>
    /\ lastCall.op = "export_query_results" /\ lastCall.query = qSelect =>
           SameExport(lastCall,
                      export_table_data(conns, files, session.connection,
                                        "t1", lastCall.format))

\* a table was exported after a row had been inserted into it
C15_ExportedAfterInsert ==
    /\ lastCall.op = "export_table_data" /\ lastCall.offered
    /\ Len(lastCall.data.content.rows) = 2
    /\ files[session.db_path].db # files[session.db_path].uploaded

\* the steps of render_exporter(), each of which renders the database download
ExportOps == {"export_table_data", "export_query_results", "render_database_export"}

C17_SameFileNotReloaded ==
    /\ lastCall.op = "handle_uploaded_file"
    /\ ~lastCall.raised
    /\ Truthy(lastCall.pre.db_path)
    /\ files[lastCall.pre.db_path].origin = uploaded_file
    => /\ ~lastCall.ret
       /\ session.connection = lastCall.pre.connection
       /\ session.db_path = lastCall.pre.db_path
       /\ session.tables = lastCall.pre.tables

\* the columns of table n that sqlite fills in by itself: the INTEGER PRIMARY
\* KEY of a table declared AUTOINCREMENT, which sqlite_sequence keeps track of
AutoIncrementKeys(db, n) ==
    IF "sqlite_sequence" \in DOMAIN db.tables
           /\ \E r \in Range(db.tables["sqlite_sequence"].rows) : r[1] = n
    THEN {db.tables[n].columns[i] : i \in {j \in DOMAIN db.tables[n].columns :
                                          /\ db.tables[n].pk[j] # 0
                                          /\ db.tables[n].types[j] = "INTEGER"}}
    ELSE {}

\* C18: the columns the insert form passes to insert_row are the columns of
\* the table other than its auto-increment primary key, each exactly once.
C18_FormOmitsAutoKeys ==
    lastCall.op = "insert_row" =>
        /\ Range(lastCall.columns) =
               Range(View(conns, files, session.connection)
                         .tables[lastCall.table].columns)
                   \ AutoIncrementKeys(View(conns, files, session.connection),
                                       lastCall.table)
        /\ Cardinality(Range(lastCall.columns)) = Len(lastCall.columns)

-----------------------------------------------------------------------------
(* The rerun cycle with a file that stays in the uploader.  A temp path is
   never given out twice, so a path matters only as being or not being
   db_path: the temp files and handles the session no longer refers to are
   left out of the state and the remaining path is numbered 1, which makes a
   script run that repeats an earlier one return to the same state. *)

Forget(w) ==
    IF Truthy(w.session.db_path)
    THEN [session |-> [w.session EXCEPT !.db_path = 1, !.connection = 1],
          files |-> <<w.files[w.session.db_path]>>,
          conns |-> <<[w.conns[w.session.connection] EXCEPT !.path = 1]>>]
    ELSE [session |-> w.session, files |-> <<>>, conns |-> <<>>]

\* the user has just chosen a file in the uploader of a new session
RerunInit ==
    /\ session = EmptySession
    /\ uploaded_file \in Uploads
    /\ files = <<>>
    /\ conns = <<>>
    /\ clock = 0
    /\ pc = "main"
    /\ event = NoEvent
    /\ widgets = NoWidgets
    /\ lastCall = NoCall

\* render_file_uploader() with the file still in the uploader, and st.rerun()
\* when it reports a new database.  A close() that raises only leaves a handle
\* behind, which is forgotten here.
UploaderRerun ==
    /\ pc = "render_file_uploader"
    /\ \E env \in UploadEnvs(session) :
         /\ Relevant(env) /\ ~env.close_raises
         /\ LET r == handle_uploaded_file(World, uploaded_file,
                                          UploadBytes(uploaded_file), env)
            IN  /\ session' = Forget(r).session
                /\ files' = Forget(r).files
                /\ conns' = Forget(r).conns
                /\ pc' = IF r.ret THEN "main" ELSE "render_database_info"
                /\ event' = IF r.ret THEN NoEvent ELSE event
                /\ lastCall' = [op |-> "handle_uploaded_file", pre |-> session,
                                pre_conns |-> conns, env |-> env,
                                ret |-> r.ret, raised |-> r.raised]
    /\ UNCHANGED <<uploaded_file, clock, widgets>>

\* the sidebar and the data tabs, or the welcome screen and the end of the
\* run, rendered without the user's having used their widgets
RenderPage ==
    /\ pc = "render_database_info"
    /\ pc' = IF Truthy(session.connection) THEN "render_settings" ELSE "idle"
    /\ event' = IF Truthy(session.connection) THEN event ELSE NoEvent
    /\ lastCall' = NoCall
    /\ UNCHANGED <<session, uploaded_file, files, conns, clock, widgets>>

NextRerun == Main \/ UploaderRerun \/ RenderPage \/ RenderSettings \/ UserInteracts

\* a script run that has started goes on to its end or to its st.rerun(); the
\* user is free to do nothing
SpecRerun ==
    /\ RerunInit /\ [][NextRerun]_vars
    /\ WF_vars(Main) /\ WF_vars(UploaderRerun)
    /\ WF_vars(RenderPage) /\ WF_vars(RenderSettings)

\* the whole request cycle of a session in which the user leaves the uploader
\* alone after choosing a file
NextFileKept ==
    \/ Main
    \/ RenderFileUploader
    \/ RenderDatabaseInfo
    \/ RenderWelcomeScreen
    \/ RenderDatabaseExplorer
    \/ RenderSqlEditor
    \/ RenderTableEditor
    \/ RenderUpdateInterface
    \/ RenderExporter
    \/ RenderSettings
    \/ UserInteracts

SpecFileKept == RerunInit /\ [][NextFileKept]_vars

\* C19: with a file that stays selected in the uploader, main eventually
\* reaches a run in which render_file_uploader reports no new database and
\* the page renders to completion.
C19_RerunsSettle == <>(pc = "idle")

\* the handlers that execute a statement the user wrote or filled in
WriteOps == {"execute_sql_query", "insert_row", "export_query_results"}

\* C20: a write committed to the session's database is still in the active
\* database after every later step, the rerun insert_row triggers included,
\* as long as the user neither uploads another file nor clears the database
\* (nor runs another statement).
C20_CommittedWritePersists ==
    [][/\ Initialized
       /\ Truthy(session.db_path)
       /\ files[session.db_path].origin = uploaded_file
       /\ files[session.db_path].db # files[session.db_path].uploaded
       /\ lastCall'.op \notin WriteOps \cup {"clear_database_state"}
       => /\ Truthy(session'.db_path)
          /\ files'[session'.db_path].db = files[session.db_path].db]_vars

====
